---- MODULE Spec2Model ----
(***************************************************************************)
(* State-machine model of ProjPredictor (src/ProjPredictor.py): the engine *)
(* that aligns a raw volume to the 100um annotation, filters it by named   *)
(* structures, infers projections through the voxel connectivity array     *)
(* and aggregates them by target area.                                     *)
(*                                                                         *)
(* A volume is a record [shape, vox]: its shape and the sparse map from    *)
(* the coordinates of its nonzero voxels to their values (every other      *)
(* voxel is 0).  A float is a pair <<n, d>>: n/d for d > 0, NaN for        *)
(* <<0, 0>>, +inf for <<1, 0>>.  A projection volume is a volume of floats. *)
(* An optional attribute is the empty set (None) or a one-element set.     *)
(***************************************************************************)
EXTENDS Integers, Sequences, FiniteSets, TLC

\* _image, _projections, _source_area, _filter_area, y_mirror: the attributes
\*   of the ProjPredictor instance (_source_area is None while unset).
\* masked_by: history of the stored image: the id sets of the structure masks
\*   multiplied into it since it was loaded.
\* assigned: history of the attributes: those of "projections" and
\*   "filter_area" whose present value the caller assigned through the
\*   property setter (and no inference or filter_by_name call has replaced).
\* ret: the outcome of the last call (see Ret).
VARIABLES _image, _projections, _source_area, _filter_area, y_mirror,
          masked_by, assigned, ret

vars == <<_image, _projections, _source_area, _filter_area, y_mirror,
          masked_by, assigned, ret>>

\* ------------------------------------------------------------ bounds

\* Largest voxel intensity of a raw volume (0 .. MaxVal).
MaxVal == 2
\* Longest list of structure names passed to an operation.
MaxNames == 2
\* A raw volume has shape (65 - d, 88, 88 + d), d in 0 .. MaxShrink.
MaxShrink == 1
\* Most nonzero voxels of a raw volume.
MaxLit == 1

\* ------------------------------------------------------------ optionals

None == {}
Some(x) == {x}
Val(o) == CHOOSE x \in o : TRUE

\* ------------------------------------------------------------ floats

RECURSIVE GCD(_, _)
GCD(a, b) == IF b = 0 THEN a ELSE GCD(b, a % b)

NaN == <<0, 0>>
Inf == <<1, 0>>
Frac(n, d) == LET g == GCD(n, d) IN <<n \div g, d \div g>>
FromInt(n) == <<n, 1>>
IsNaN(x) == x = NaN
IsInf(x) == x = Inf
IsFinite(x) == x[2] > 0

\* x + y for non-negative floats.
FAdd(x, y) ==
    IF IsNaN(x) \/ IsNaN(y) THEN NaN
    ELSE IF IsInf(x) \/ IsInf(y) THEN Inf
    ELSE Frac(x[1] * y[2] + y[1] * x[2], x[2] * y[2])

\* x / c for a non-negative float x and a count c >= 0, as numpy divides:
\* 0/0 is NaN and a positive number over 0 is +inf (with a RuntimeWarning).
FDiv(x, c) ==
    IF IsNaN(x) THEN NaN
    ELSE IF IsInf(x) THEN Inf
    ELSE IF c = 0 THEN (IF x[1] = 0 THEN NaN ELSE Inf)
    ELSE Frac(x[1], x[2] * c)

\* np.nan_to_num(row, nan=0.0) on one element (no element is infinite here).
nan_to_num(x) == IF IsNaN(x) THEN FromInt(0) ELSE x

\* ------------------------------------------------------------ geometry

default_shape == <<65, 88, 88>>

\* The pad widths of _permute_pad_reflect, per axis: (before, after).
PadWidth == << <<0, 132 - 88>>, <<80 - 65 - 10, 10>>, <<13, 114 - 88 - 13>> >>

\* The annotation (reference) shape of the 100um voxel model.
annotation_shape == <<132, 80, 114>>

\* Raw coordinates whose values a raw volume may set; valid in every raw shape.
Probes == { <<10, 20, 30>>, <<30, 40, 50>>, <<0, 0, 0>> }

RawShapes == { <<65 - d, 88, 88 + d>> : d \in 0 .. MaxShrink }

\* The sparse form of a dense map: its nonzero entries.
Sparse(f) == [c \in {x \in DOMAIN f : f[x] # 0} |-> f[c]]

RawVolumes ==
    { [shape |-> s, vox |-> Sparse(f)] :
        s \in RawShapes,
        f \in { g \in [Probes -> 0 .. MaxVal] :
                  Cardinality({ c \in Probes : g[c] # 0 }) <= MaxLit } }

\* The volume of shape s whose voxel c holds v (v = 0: the all-zero volume).
OneVoxel(s, c, v) == [shape |-> s, vox |-> Sparse([x \in {c} |-> v])]

\* The source volumes the whole engine is run on: an empty one, binary ones
\* with one voxel inside the source mask, one outside the brain or both source
\* voxels, a non-binary one, and one that is not 65 x 88 x 88.
SampleVolumes ==
    { OneVoxel(<<65, 88, 88>>, <<10, 20, 30>>, 0),
      OneVoxel(<<65, 88, 88>>, <<10, 20, 30>>, 1),
      OneVoxel(<<65, 88, 88>>, <<0, 0, 0>>, 1),
      [shape |-> <<65, 88, 88>>, vox |-> [c \in {<<10, 20, 30>>, <<30, 40, 50>>} |-> 1]],
      OneVoxel(<<65, 88, 88>>, <<10, 20, 30>>, 2),
      OneVoxel(<<64, 88, 89>>, <<10, 20, 30>>, 1) }

\* The volume of the given shape whose voxel m[c] holds what im holds at c
\* (m is an injective map of im's nonzero coordinates).
MapVolume(im, shape, m) ==
    [shape |-> shape,
     vox   |-> [c \in {m[x] : x \in DOMAIN im.vox} |->
                  im.vox[CHOOSE x \in DOMAIN im.vox : m[x] = c]]]

\* np.transpose(im, (1, 0, 2))
Transpose(im) ==
    MapVolume(im, <<im.shape[2], im.shape[1], im.shape[3]>>,
              [c \in DOMAIN im.vox |-> <<c[2], c[1], c[3]>>])

\* np.pad(im, PadWidth, 'constant')
Pad(im) ==
    MapVolume(im, [a \in 1 .. 3 |-> PadWidth[a][1] + im.shape[a] + PadWidth[a][2]],
              [c \in DOMAIN im.vox |-> [a \in 1 .. 3 |-> c[a] + PadWidth[a][1]]])

\* np.flip(im, axis) for a set of axes (1-based here).
Flip(im, axes) ==
    MapVolume(im, im.shape,
              [c \in DOMAIN im.vox |->
                 [a \in 1 .. 3 |-> IF a \in axes THEN im.shape[a] - 1 - c[a] ELSE c[a]]])

\* np.fliplr(im): flips the second axis.
fliplr(im) == Flip(im, {2})

\* skimage.transform.resize(im, shape): the output has the requested shape; a
\* voxel value is carried to the output voxel whose centre samples it.
resize(im, shape) ==
    MapVolume(im, shape,
              [c \in DOMAIN im.vox |->
                 [a \in 1 .. 3 |-> ((2 * c[a] + 1) * shape[a]) \div (2 * im.shape[a])]])

\* A variant that forgets the transposition.
_permute_pad_reflect_untransposed(im, mirror) ==
    LET flipped == Flip(Pad(im), {1, 2})
    IN  IF mirror THEN fliplr(flipped) ELSE flipped

_permute_pad_reflect(im, mirror) ==
    LET flipped == Flip(Pad(Transpose(im)), {1, 2})
    IN  IF mirror THEN fliplr(flipped) ELSE flipped

\* image.sum()
VolSum(im) ==
    LET RECURSIVE S(_)
        S(D) == IF D = {} THEN 0
                ELSE LET c == CHOOSE x \in D : TRUE IN im.vox[c] + S(D \ {c})
    IN  S(DOMAIN im.vox)

\* ------------------------------------------------------------ ontology

\* The structure tree's nodes, in the tree's own order.
Structures ==
    << [id |-> 549, name |-> "Thalamus"],
       [id |-> 669, name |-> "Visual areas"],
       [id |-> 846, name |-> "Dentate nucleus"] >>

\* get_structure_tree().get_name_map().values()
NameMapValues == { Structures[i].name : i \in DOMAIN Structures }

\* The names an operation may be given: two known ones and an unknown one.
InputNames == { "Visual areas", "Thalamus", "Not A Real Structure" }

RECURSIVE SeqsUpTo(_, _)
SeqsUpTo(S, n) ==
    IF n = 0 THEN { <<>> }
    ELSE LET shorter == SeqsUpTo(S, n - 1)
         IN  shorter \cup { Append(q, x) : q \in {r \in shorter : Len(r) = n - 1}, x \in S }

\* A Union[str, List[str]] argument: a bare string s is [list |-> FALSE, names |-> <<s>>].
NameArgs ==
    { [list |-> FALSE, names |-> <<n>>] : n \in InputNames }
    \cup { [list |-> TRUE, names |-> q] : q \in SeqsUpTo(InputNames, MaxNames) }

\* The targets an area report is asked for: a bare name, known or not, no
\* name, two known names in the tree's order and against it, and a known name
\* with an unknown one.
TargetArgs ==
    { [list |-> FALSE, names |-> <<"Thalamus">>],
      [list |-> FALSE, names |-> <<"Not A Real Structure">>],
      [list |-> TRUE,  names |-> <<>>],
      [list |-> TRUE,  names |-> <<"Thalamus", "Visual areas">>],
      [list |-> TRUE,  names |-> <<"Visual areas", "Thalamus">>],
      [list |-> TRUE,  names |-> <<"Thalamus", "Not A Real Structure">>] }

\* The filter areas given (to filter_by_name, to the constructor and to the
\* filter_area setter): a known name, an unknown name and a list of two known
\* names.
FilterArgs ==
    { [list |-> FALSE, names |-> <<"Thalamus">>],
      [list |-> FALSE, names |-> <<"Not A Real Structure">>],
      [list |-> TRUE,  names |-> <<"Thalamus", "Visual areas">>] }

\* The annotation volume: the structure id of each annotated voxel (0 elsewhere).
AnnotatedVoxels ==
    { <<111, 64, 43>>, <<111, 15, 43>>, <<91, 44, 63>>, <<60, 40, 50>> }

Annotation ==
    [c \in AnnotatedVoxels |->
        IF c \in { <<111, 64, 43>>, <<111, 15, 43>> } THEN 549
        ELSE IF c = <<91, 44, 63>> THEN 846
        ELSE 669]

\* get_reference_space().make_structure_mask(ids): the boolean volume (here the
\* set of its true voxels) of the voxels annotated with one of the structures.
make_structure_mask(ids) ==
    { c \in AnnotatedVoxels : \E i \in DOMAIN ids : ids[i] = Annotation[c] }

\* StructureTree.get_structures_by_name(names): one node per name, in the order
\* of the names; a name that no node carries raises KeyError.
get_structures_by_name(names) ==
    IF \E i \in DOMAIN names : names[i] \notin NameMapValues
    THEN [status |-> "KeyError", val |-> <<>>]
    ELSE [status |-> "ok",
          val |-> [i \in DOMAIN names |->
                     Structures[CHOOSE k \in DOMAIN Structures :
                                  Structures[k].name = names[i]]]]

\* ------------------------------------------------------------ connectivity

\* The source mask's voxels (one hemisphere), in the row order of the array.
SourceVoxels == << <<111, 64, 43>>, <<91, 44, 63>> >>

\* The target mask's voxels (both hemispheres), in the column order.
TargetVoxels == << <<111, 64, 43>>, <<111, 15, 43>>, <<91, 44, 63>>, <<60, 40, 50>> >>

\* The voxel connectivity array: a row per source voxel, a column per target
\* voxel; an entry may be NaN.
_voxel_array ==
    << << FromInt(2), FromInt(1), FromInt(0), FromInt(5) >>,
       << FromInt(0), NaN,        FromInt(4), FromInt(1) >> >>

\* Value of volume im at coordinate c.
At(im, c) == IF c \in DOMAIN im.vox THEN im.vox[c] ELSE 0

\* Mask.mask_volume(X): the volume's values at the mask's voxels, flattened.
mask_volume(im) ==
    IF im.shape # annotation_shape
    THEN [status |-> "ValueError", val |-> <<>>]
    ELSE [status |-> "ok", val |-> [r \in DOMAIN SourceVoxels |-> At(im, SourceVoxels[r])]]

\* _voxel_array[selected].sum(axis=0): the column sums over the selected rows.
RowSum(selected) ==
    LET RECURSIVE S(_, _)
        S(col, rows) ==
            IF rows = {} THEN FromInt(0)
            ELSE LET r == CHOOSE x \in rows : TRUE
                 IN  FAdd(_voxel_array[r][col], S(col, rows \ {r}))
    IN  [col \in DOMAIN TargetVoxels |-> S(col, selected)]

\* Mask.map_masked_to_annotation(row): the annotation-shaped volume holding
\* row[k] at the k-th voxel of the target mask (0 elsewhere).
map_masked_to_annotation(row) ==
    [shape |-> annotation_shape,
     vox   |-> [c \in { TargetVoxels[k] : k \in { j \in DOMAIN TargetVoxels :
                                                    row[j] # FromInt(0) } } |->
                  row[CHOOSE k \in DOMAIN TargetVoxels : TargetVoxels[k] = c]]]

\* The source areas named by the callers: a known name and an unknown one.
SourceAreas == { "Dentate nucleus", "Not A Real Structure" }

\* The projection volumes a caller assigns: one in the annotation's shape and
\* one in the shape of a raw volume, each with one nonzero voxel.
ProjectionVolumes ==
    { [shape |-> s, vox |-> [c \in { <<60, 40, 50>> } |-> FromInt(7)]] :
        s \in { annotation_shape, default_shape } }

\* What is assigned to pp.projections: the name of an image file (str) or an
\* array; data is the volume the file or the array holds.
ProjectionInputs == [str : BOOLEAN, data : ProjectionVolumes]

\* io.imread(image_file): the volume the file holds.
imread(image_file) == image_file.data

\* vol_to_probs's return_volume for an image (None: no image is stored).
vol_to_probs(image) ==
    IF image = None THEN [status |-> "AttributeError", val |-> <<>>]
    ELSE LET data_flattened == mask_volume(Val(image))
         IN  IF data_flattened.status # "ok"
             THEN [status |-> data_flattened.status, val |-> <<>>]
             ELSE LET selected == { r \in DOMAIN data_flattened.val :
                                      data_flattened.val[r] = 1 }
                      row == [k \in DOMAIN TargetVoxels |-> nan_to_num(RowSum(selected)[k])]
                  IN  [status |-> "ok", val |-> map_masked_to_annotation(row)]

\* ------------------------------------------------------------ resolver

\* assert_valid_structure_name: TRUE when it warns that a name cannot be found
\* (it never raises).
assert_valid_structure_name(struct_name) ==
    \E i \in DOMAIN struct_name.names : struct_name.names[i] \notin NameMapValues

\* A variant that collects the ids while walking the tree, so in the tree's order.
struct_names_to_ids_tree_order(structure_name) ==
    LET found == SelectSeq(Structures,
                           LAMBDA st : \E i \in DOMAIN structure_name.names :
                                          structure_name.names[i] = st.name)
    IN  [status |-> get_structures_by_name(structure_name.names).status,
         val |-> [i \in DOMAIN found |-> found[i].id]]

\* struct_names_to_ids: the ids of the structures found, in their order.
struct_names_to_ids(structure_name) ==
    LET structures == get_structures_by_name(structure_name.names)
    IN  [status |-> structures.status,
         val |-> [i \in DOMAIN structures.val |-> structures.val[i].id]]

\* struct_ids_to_mask: a bare id is wrapped in a list.
struct_ids_to_mask(structure_id) == make_structure_mask(structure_id)

\* self._image * mask
MaskVolume(im, mask) ==
    [shape |-> im.shape, vox |-> [c \in DOMAIN im.vox \cap mask |-> im.vox[c]]]

\* self.image > thresh
GreaterThan(im, thresh) ==
    [shape |-> im.shape,
     vox |-> [c \in { x \in DOMAIN im.vox : im.vox[x] > thresh } |-> 1]]

\* ------------------------------------------------------------ aggregation

\* (mask * projections).sum(), for projections of the mask's shape.
MaskedSum(mask, proj) ==
    LET RECURSIVE S(_)
        S(D) == IF D = {} THEN FromInt(0)
                ELSE LET c == CHOOSE x \in D : TRUE IN FAdd(proj.vox[c], S(D \ {c}))
    IN  S(mask \cap DOMAIN proj.vox)

\* One entry of proj_strengths, before the division by the source voxels.
TargetStrength(id, proj, normalize_target) ==
    IF normalize_target
    THEN FDiv(MaskedSum(struct_ids_to_mask(<<id>>), proj),
              Cardinality(struct_ids_to_mask(<<id>>)))
    ELSE MaskedSum(struct_ids_to_mask(<<id>>), proj)

\* A variant that walks the ids in ascending order.
proj_strengths_sorted(ids, proj, source_area_voxels, normalize_source, normalize_target) ==
    LET sorted == SortSeq(ids, LAMBDA a, b : a < b)
    IN  [i \in DOMAIN ids |->
           IF normalize_source
           THEN FDiv(TargetStrength(sorted[i], proj, normalize_target), source_area_voxels)
           ELSE TargetStrength(sorted[i], proj, normalize_target)]

\* A variant that normalizes by the source only when it did not by the target.
proj_strengths_either(ids, proj, source_area_voxels, normalize_source, normalize_target) ==
    [i \in DOMAIN ids |->
       IF normalize_target THEN TargetStrength(ids[i], proj, TRUE)
       ELSE IF normalize_source
       THEN FDiv(TargetStrength(ids[i], proj, FALSE), source_area_voxels)
       ELSE TargetStrength(ids[i], proj, FALSE)]

\* proj_strengths as save_proj_by_area computes it from the ids.
proj_strengths(ids, proj, source_area_voxels, normalize_source, normalize_target) ==
    [i \in DOMAIN ids |->
       IF normalize_source
       THEN FDiv(TargetStrength(ids[i], proj, normalize_target), source_area_voxels)
       ELSE TargetStrength(ids[i], proj, normalize_target)]

\* The data frame save_proj_by_area pickles.
proj_dict(source_area, structure_name, strengths, normalize_source, normalize_target, filter_area) ==
    [source    |-> [i \in DOMAIN structure_name |-> source_area],
     target    |-> structure_name,
     strength  |-> strengths,
     by_source |-> [i \in DOMAIN structure_name |-> normalize_source],
     by_target |-> [i \in DOMAIN structure_name |-> normalize_target],
     filter    |-> IF filter_area = None THEN None
                   ELSE Some([i \in DOMAIN structure_name |-> Val(filter_area)])]

\* pandas.DataFrame(dict): every column must have the same length.
DataFrameOk(d) ==
    /\ Len(d.strength) = Len(d.target)
    /\ Len(d.source) = Len(d.target)

\* ------------------------------------------------------------ operations

\* What the last call did: its name, how it ended ("ok" or the exception),
\* whether it warned of an unknown structure name, what it returned (for a
\* call that returns nothing, the arguments it was given), and the report it
\* pickled (None: it wrote nothing).
Ret(op, status, warned, val, file) ==
    [op |-> op, status |-> status, warned |-> warned, val |-> val, file |-> file]

\* ProjPredictor(image_file, source_area, filter_area, y_mirror), with the
\* voxel model cache loaded.
Init ==
    \E mirror \in BOOLEAN, image_file \in {None} \cup {Some(r) : r \in SampleVolumes},
       source_area \in {None, Some("Dentate nucleus")},
       filter_area \in {None} \cup {Some(a) : a \in FilterArgs} :
        /\ y_mirror = mirror
        /\ _image = IF image_file = None THEN None
                    ELSE Some(_permute_pad_reflect(Val(image_file), mirror))
        /\ _projections = None
        /\ _source_area = source_area
        /\ _filter_area = filter_area
        /\ masked_by = {}
        /\ assigned = {}
        /\ ret = Ret("__init__", "ok",
                     \/ source_area # None /\ Val(source_area) \notin NameMapValues
                     \/ filter_area # None /\ assert_valid_structure_name(Val(filter_area)),
                     IF image_file = None THEN <<>>
                     ELSE [raw_shape |-> Val(image_file).shape, reshape |-> FALSE],
                     None)

\* pp.image = array
ImageSetter(raw) ==
    /\ _image' = Some(_permute_pad_reflect(raw, y_mirror))
    /\ masked_by' = {}
    /\ ret' = Ret("image", "ok", FALSE, [raw_shape |-> raw.shape, reshape |-> FALSE], None)
    /\ UNCHANGED <<_projections, _source_area, _filter_area, y_mirror, assigned>>

\* pp.set_image_from_file(image_file, y_mirror, source_area, reshape)
SetImageFromFile(raw, mirror, source_area, reshape) ==
    LET im == IF reshape THEN resize(raw, default_shape) ELSE raw
    IN  /\ y_mirror' = mirror
        /\ _image' = Some(_permute_pad_reflect(im, mirror))
        /\ masked_by' = {}
        /\ _source_area' = IF source_area # None THEN source_area ELSE _source_area
        /\ ret' = Ret("set_image_from_file", "ok",
                      source_area # None /\ Val(source_area) \notin NameMapValues,
                      [raw_shape |-> raw.shape, reshape |-> reshape], None)
        /\ UNCHANGED <<_projections, _filter_area, assigned>>

\* pp.threshold(thresh)
Threshold(thresh) ==
    IF _image = None
    THEN /\ ret' = Ret("threshold", "TypeError", FALSE, <<>>, None)
         /\ UNCHANGED <<_image, _projections, _source_area, _filter_area, y_mirror,
                        masked_by, assigned>>
    ELSE /\ _image' = Some(GreaterThan(Val(_image), thresh))
         /\ ret' = Ret("threshold", "ok", FALSE, <<>>, None)
         /\ UNCHANGED <<_projections, _source_area, _filter_area, y_mirror,
                        masked_by, assigned>>

\* pp.filter_by_name(structure_name): the filter_area setter, then the
\* resolution of the names, then _filter_by_id.
FilterByName(structure_name) ==
    LET warned == assert_valid_structure_name(structure_name)
        ids == struct_names_to_ids(structure_name)
        status == IF ids.status # "ok" THEN ids.status
                  ELSE IF _image = None THEN "TypeError"
                  ELSE IF Val(_image).shape # annotation_shape THEN "ValueError"
                  ELSE "ok"
    IN  /\ _filter_area' = Some(structure_name)
        /\ assigned' = assigned \ {"filter_area"}
        /\ IF status = "ok"
           THEN /\ _image' = Some(MaskVolume(Val(_image), struct_ids_to_mask(ids.val)))
                /\ masked_by' = masked_by \cup { { ids.val[i] : i \in DOMAIN ids.val } }
           ELSE UNCHANGED <<_image, masked_by>>
        /\ ret' = Ret("filter_by_name", status, warned, <<>>, None)
        /\ UNCHANGED <<_projections, _source_area, y_mirror>>

\* pp.vol_to_probs(save)
VolToProbs(save) ==
    LET res == vol_to_probs(_image)
    IN  /\ _projections' = IF res.status = "ok" /\ save THEN Some(res.val) ELSE _projections
        /\ assigned' = IF res.status = "ok" /\ save THEN assigned \ {"projections"}
                       ELSE assigned
        /\ ret' = Ret("vol_to_probs", res.status, FALSE, res.val, None)
        /\ UNCHANGED <<_image, _source_area, _filter_area, y_mirror, masked_by>>

\* The projections property: what reading it returns and the cache it leaves.
projections ==
    IF _projections # None
    THEN [status |-> "ok", val |-> Val(_projections), cache |-> _projections]
    ELSE LET res == vol_to_probs(_image)
         IN  [status |-> res.status, val |-> res.val,
              cache |-> IF res.status = "ok" THEN Some(res.val) ELSE None]

\* Reading pp.projections (as save_projections and view_proj do).
ReadProjections ==
    /\ _projections' = projections.cache
    /\ ret' = Ret("projections", projections.status, FALSE, projections.val, None)
    /\ UNCHANGED <<_image, _source_area, _filter_area, y_mirror, masked_by, assigned>>

\* pp.projections = image_file
ProjectionsSetter(image_file) ==
    /\ _projections' = IF image_file.str THEN Some(imread(image_file))
                       ELSE Some(image_file.data)
    /\ assigned' = assigned \cup {"projections"}
    /\ ret' = Ret("projections.setter", "ok", FALSE, [str |-> image_file.str], None)
    /\ UNCHANGED <<_image, _source_area, _filter_area, y_mirror, masked_by>>

\* pp.source_area = struct_name
SourceAreaSetter(struct_name) ==
    /\ _source_area' = Some(struct_name)
    /\ ret' = Ret("source_area.setter", "ok",
                  assert_valid_structure_name([list |-> FALSE, names |-> <<struct_name>>]),
                  <<>>, None)
    /\ UNCHANGED <<_image, _projections, _filter_area, y_mirror, masked_by, assigned>>

\* pp.filter_area = struct_name
FilterAreaSetter(struct_name) ==
    /\ _filter_area' = Some(struct_name)
    /\ assigned' = assigned \cup {"filter_area"}
    /\ ret' = Ret("filter_area.setter", "ok", assert_valid_structure_name(struct_name),
                  <<>>, None)
    /\ UNCHANGED <<_image, _projections, _source_area, y_mirror, masked_by>>

\* save_proj_by_area once the names are resolved to ids: how it ends, the
\* cache it leaves and the report it pickles.
aggregate(ids, names, normalize_source, normalize_target) ==
    LET read == Len(ids.val) > 0
        status ==
            IF ids.status # "ok" THEN ids.status
            ELSE IF read /\ projections.status # "ok" THEN projections.status
            ELSE IF read /\ projections.val.shape # annotation_shape THEN "ValueError"
            ELSE IF _image = None THEN "AttributeError"
            ELSE IF _source_area = None THEN "AttributeError"
            ELSE "ok"
        cache == IF ids.status = "ok" /\ read THEN projections.cache ELSE _projections
        report ==
            proj_dict(Val(_source_area), names,
                      proj_strengths(ids.val, projections.val, VolSum(Val(_image)),
                                     normalize_source, normalize_target),
                      normalize_source, normalize_target, _filter_area)
    IN  IF status # "ok" THEN [status |-> status, cache |-> cache, file |-> None]
        ELSE IF ~DataFrameOk(report)
        THEN [status |-> "ValueError", cache |-> cache, file |-> None]
        ELSE [status |-> "ok", cache |-> cache, file |-> Some(report)]

\* A variant that skips the names it cannot resolve and reports the others.
save_proj_by_area_lenient(structure_name, normalize_source, normalize_target) ==
    LET known == SelectSeq(structure_name.names, LAMBDA n : n \in NameMapValues)
    IN  aggregate(struct_names_to_ids([list |-> TRUE, names |-> known]), known,
                  normalize_source, normalize_target)

\* How save_proj_by_area ends, the cache it leaves and the report it pickles.
save_proj_by_area(structure_name, normalize_source, normalize_target) ==
    aggregate(struct_names_to_ids(structure_name), structure_name.names,
              normalize_source, normalize_target)

\* pp.save_proj_by_area(structure_name, normalize_source, normalize_target)
SaveProjByArea(structure_name, normalize_source, normalize_target) ==
    LET res == save_proj_by_area(structure_name, normalize_source, normalize_target)
    IN  /\ _projections' = res.cache
        /\ ret' = Ret("save_proj_by_area", res.status,
                      assert_valid_structure_name(structure_name),
                      IF res.status = "ok"
                      THEN [arg |-> structure_name, normalize_source |-> normalize_source,
                            normalize_target |-> normalize_target]
                      ELSE [arg |-> structure_name],
                      res.file)
        /\ UNCHANGED <<_image, _source_area, _filter_area, y_mirror, masked_by, assigned>>

\* pp.struct_names_to_ids(structure_name)
StructNamesToIds(structure_name) ==
    LET ids == struct_names_to_ids(structure_name)
    IN  /\ ret' = Ret("struct_names_to_ids", ids.status, FALSE,
                      [arg |-> structure_name, ids |-> ids.val], None)
        /\ UNCHANGED <<_image, _projections, _source_area, _filter_area, y_mirror,
                   masked_by, assigned>>

\* pp.assert_valid_structure_name(struct_name)
AssertValidStructureName(struct_name) ==
    /\ ret' = Ret("assert_valid_structure_name", "ok",
                  assert_valid_structure_name(struct_name),
                  [arg |-> struct_name, ids |-> <<>>], None)
    /\ UNCHANGED <<_image, _projections, _source_area, _filter_area, y_mirror,
                   masked_by, assigned>>

\* The thresholds applied: integer intensities make threshold(0.2) act as 0.
Thresholds == 0 .. MaxVal - 1

\* The engine's operations.
Next ==
    \/ \E raw \in SampleVolumes : ImageSetter(raw)
    \/ \E raw \in SampleVolumes, mirror \in BOOLEAN, reshape \in BOOLEAN,
          source_area \in {None, Some("Dentate nucleus")} :
            SetImageFromFile(raw, mirror, source_area, reshape)
    \/ \E thresh \in Thresholds : Threshold(thresh)
    \/ \E a \in FilterArgs : FilterByName(a)
    \/ \E save \in BOOLEAN : VolToProbs(save)
    \/ ReadProjections
    \/ \E image_file \in ProjectionInputs : ProjectionsSetter(image_file)
    \/ \E struct_name \in SourceAreas : SourceAreaSetter(struct_name)
    \/ \E struct_name \in FilterArgs : FilterAreaSetter(struct_name)
    \/ \E a \in TargetArgs, ns \in BOOLEAN, nt \in BOOLEAN : SaveProjByArea(a, ns, nt)

Spec == Init /\ [][Next]_vars

\* The loading operations alone, on every raw volume within the bounds.
AlignNext ==
    \/ \E raw \in RawVolumes : ImageSetter(raw)
    \/ \E raw \in RawVolumes, mirror \in BOOLEAN, reshape \in BOOLEAN,
          source_area \in {None, Some("Dentate nucleus")} :
            SetImageFromFile(raw, mirror, source_area, reshape)

AlignSpec == Init /\ [][AlignNext]_vars

\* The resolver's two paths (they read the ontology only), on every argument.
ResolverNext ==
    \/ \E a \in NameArgs : StructNamesToIds(a)
    \/ \E a \in NameArgs : AssertValidStructureName(a)

ResolverSpec == Init /\ [][ResolverNext]_vars

\* ------------------------------------------------------------ properties

Loaded == ret.op \in {"image", "set_image_from_file"} \/ (ret.op = "__init__" /\ _image # None)
Saved == ret.op = "save_proj_by_area" /\ ret.file # None
Unknown(arg) == \E i \in DOMAIN arg.names : arg.names[i] \notin NameMapValues

\* The ontology identifier of a known name.
IdOf(name) ==
    LET st == CHOOSE k \in DOMAIN Structures : Structures[k].name = name
    IN  Structures[st].id

\* The voxels the annotation assigns to a known name.
VoxelsOf(name) == { c \in DOMAIN Annotation : Annotation[c] = IdOf(name) }

\* The rows whose sum a projection volume is (the rows of the array are
\* independent, so the set is unique).
RowsOf(proj) ==
    CHOOSE sel \in SUBSET DOMAIN SourceVoxels :
        proj = map_masked_to_annotation([k \in DOMAIN TargetVoxels |->
                                           nan_to_num(RowSum(sel)[k])])

\* C1: unless the caller assigned the projections, reading them (directly or
\* in save_proj_by_area) returns the inference of the image currently stored,
\* never one cached from an earlier source volume.
C1_ProjectionsOfCurrentImage ==
    (vol_to_probs(_image).status = "ok" /\ "projections" \notin assigned) =>
        /\ (ret.op = "projections" /\ ret.status = "ok")
              => ret.val = vol_to_probs(_image).val
        /\ (Saved /\ Len(ret.val.arg.names) > 0)
              => _projections = Some(vol_to_probs(_image).val)

\* C2 (as claimed): every stored image has the reference shape 132 x 80 x 114,
\* whatever the raw shape and however it was loaded.
C2_StoredShapeIsReference ==
    _image # None => Val(_image).shape = annotation_shape

\* C2 (amended): loading a raw volume of shape (a, b, c) stores an image of
\* shape (b + 44, a + 15, c + 26), after resampling to 65 x 88 x 88 when
\* reshape is set; so the stored shape is the reference shape when the raw
\* volume is 65 x 88 x 88 or reshape is set.
C2_ShapeAfterLoad ==
    Loaded =>
        LET raw == IF ret.val.reshape THEN <<65, 88, 88>> ELSE ret.val.raw_shape
        IN  /\ Val(_image).shape = <<raw[2] + 44, raw[1] + 15, raw[3] + 26>>
            /\ (ret.val.reshape \/ ret.val.raw_shape = <<65, 88, 88>>)
                  => Val(_image).shape = <<132, 80, 114>>

\* A volume that is not 65 x 88 x 88, loaded with reshape, is stored in the
\* reference shape.
C2_Witness ==
    /\ ret.op = "set_image_from_file"
    /\ ret.val.reshape
    /\ ret.val.raw_shape # <<65, 88, 88>>
    /\ Val(_image).shape = <<132, 80, 114>>
    /\ DOMAIN Val(_image).vox # {}

\* C3: struct_names_to_ids returns one id per name, the i-th id being the
\* ontology identifier of the i-th name given.
C3_IdsInOrder ==
    (ret.op = "struct_names_to_ids" /\ ret.status = "ok") =>
        /\ Len(ret.val.ids) = Len(ret.val.arg.names)
        /\ \A i \in DOMAIN ret.val.arg.names : ret.val.ids[i] = IdOf(ret.val.arg.names[i])

\* Two names given against the order of the tree come back in the order given.
C3_Witness ==
    /\ ret.op = "struct_names_to_ids"
    /\ ret.status = "ok"
    /\ ret.val.arg.names = <<"Visual areas", "Thalamus">>
    /\ ret.val.ids = <<669, 549>>

\* C4: an unknown name is reported the same way by the resolution path and by
\* the validation path: struct_names_to_ids does not return normally, and
\* assert_valid_structure_name ends the way struct_names_to_ids does.
C4_UnknownNameTreatedAlike ==
    /\ (ret.op = "struct_names_to_ids" /\ Unknown(ret.val.arg))
          => ret.status # "ok"
    /\ (ret.op = "assert_valid_structure_name" /\ Unknown(ret.val.arg))
          => /\ ret.warned
             /\ ret.status = struct_names_to_ids(ret.val.arg).status

\* The strength the report must hold for a target name.
ExpectedStrength(name, proj, source_voxels, normalize_source, normalize_target) ==
    LET total == MaskedSum(VoxelsOf(name), proj)
        density == IF normalize_target THEN FDiv(total, Cardinality(VoxelsOf(name)))
                   ELSE total
    IN  IF normalize_source THEN FDiv(density, source_voxels) ELSE density

\* C5: the report has one row per requested name, in the order given, and row
\* i holds the strength of the structure named in row i.
C5_RowsInOrder ==
    Saved =>
        LET report == Val(ret.file)
            names == ret.val.arg.names
        IN  /\ report.target = names
            /\ Len(report.strength) = Len(names)
            /\ \A i \in DOMAIN names :
                   report.strength[i] =
                       ExpectedStrength(names[i], Val(_projections), VolSum(Val(_image)),
                                        ret.val.normalize_source, ret.val.normalize_target)

\* An unnormalized report of two targets with different strengths.
C5_Witness ==
    /\ Saved
    /\ Val(ret.file).target = <<"Visual areas", "Thalamus">>
    /\ ~ret.val.normalize_source /\ ~ret.val.normalize_target
    /\ Val(ret.file).strength = <<FromInt(6), FromInt(2)>>

\* Reports h and l of the same request differ in one normalization, which h
\* applied: each strength of h is that of l divided by the matching count.
OneMoreNormalization(h, l, source_voxels) ==
    /\ (/\ h.by_source = [i \in DOMAIN h.target |-> TRUE]
        /\ l.by_source = [i \in DOMAIN l.target |-> FALSE]
        /\ h.by_target = l.by_target)
          => \A i \in DOMAIN h.target :
                 h.strength[i] = FDiv(l.strength[i], source_voxels)
    /\ (/\ h.by_target = [i \in DOMAIN h.target |-> TRUE]
        /\ l.by_target = [i \in DOMAIN l.target |-> FALSE]
        /\ h.by_source = l.by_source)
          => \A i \in DOMAIN h.target :
                 h.strength[i] = FDiv(l.strength[i], Cardinality(VoxelsOf(h.target[i])))

\* C6: two reports written one after the other for the same targets (so on the
\* same engine state) are consistent: the strength normalized by source and
\* target is the target-normalized one divided by the source voxel count, and
\* the source-normalized one divided by the target's voxel count (the same
\* holds against the report with no normalization); the flags of a report are
\* the normalizations asked for.
C6_NormalizationConsistent ==
    [][ (Saved /\ Saved' /\ ret.val.arg = ret'.val.arg) =>
          LET old == Val(ret.file)
              new == Val(ret'.file)
              source_voxels == VolSum(Val(_image))
          IN  /\ OneMoreNormalization(new, old, source_voxels)
              /\ OneMoreNormalization(old, new, source_voxels)
              /\ new.by_source = [i \in DOMAIN new.target |-> ret'.val.normalize_source]
              /\ new.by_target = [i \in DOMAIN new.target |-> ret'.val.normalize_target]
      ]_vars

\* A report normalized both ways, of the inference of an image of two source
\* voxels.
C6_Witness ==
    /\ Saved
    /\ ret.val.normalize_source /\ ret.val.normalize_target
    /\ VolSum(Val(_image)) = 2
    /\ _projections = Some(vol_to_probs(_image).val)
    /\ Val(ret.file).target = <<"Thalamus", "Visual areas">>
    /\ Val(ret.file).strength = << <<1, 2>>, <<3, 1>> >>

\* C7: with an all-zero source volume, vol_to_probs returns the all-zero
\* projection and no report holds a NaN or an infinite strength.
C7_EmptySelectionDefined ==
    (_image # None /\ DOMAIN Val(_image).vox = {}) =>
        /\ (ret.op = "vol_to_probs" /\ ret.status = "ok")
              => ret.val = [shape |-> annotation_shape, vox |-> <<>>]
        /\ Saved => \A i \in DOMAIN Val(ret.file).strength :
                        IsFinite(Val(ret.file).strength[i])

\* C8: unless the caller assigned the filter area, a report carries a filter
\* label exactly when the stored source volume was masked by a structure
\* filter, and the label names the structures of the one union mask applied
\* to it.
C8_FilterLabelTellsFilter ==
    (Saved /\ Len(ret.val.arg.names) > 0 /\ "filter_area" \notin assigned) =>
        LET label == Val(ret.file).filter
        IN  /\ (label # None) <=> (masked_by # {})
            /\ label # None =>
                 \A i \in DOMAIN Val(label) :
                     /\ ~Unknown(Val(label)[i])
                     /\ masked_by = { { IdOf(Val(label)[i].names[k]) :
                                          k \in DOMAIN Val(label)[i].names } }

\* C9: a save_proj_by_area call given an unresolvable target name fails,
\* pickles no report, and leaves the cached projections unchanged or holding
\* the complete inference of the current image.
C9_AllOrNothing ==
    [][ (ret'.op = "save_proj_by_area" /\ Unknown(ret'.val.arg)) =>
          /\ ret'.status # "ok"
          /\ ret'.file = None
          /\ \/ _projections' = _projections
             \/ _projections' = Some(vol_to_probs(_image').val)
      ]_vars

\* A call given a known and an unknown name fails with the cache kept.
C9_Witness ==
    /\ ret.op = "save_proj_by_area"
    /\ ret.val.arg.names = <<"Thalamus", "Not A Real Structure">>
    /\ ret.status = "KeyError"
    /\ ret.warned
    /\ ret.file = None
    /\ _projections # None
    /\ _source_area # None

\* C10: the divisor of the source normalization, the sum of the stored image,
\* is the number of rows selected by the inference that produced the
\* projections aggregated (when an inference did, not the caller).
C10_DivisorIsSelectedCount ==
    (/\ Saved /\ ret.val.normalize_source /\ Len(ret.val.arg.names) > 0
     /\ "projections" \notin assigned) =>
        VolSum(Val(_image)) = Cardinality(RowsOf(Val(_projections)))

====
